---- MODULE Spec2Model ----
(***************************************************************************)
(* Model of the data-collectors service: the per-collector run loop        *)
(* (collectors/base.py), the local and S3 storage back ends                *)
(* (storage/local.py, storage/s3.py) and the archive task                  *)
(* (tasks/archive.py) driven by the single scheduler loop of main.py.      *)
(*                                                                         *)
(* Time is a natural number of clock ticks.  A day has SlotsPerDay minute  *)
(* slots of TicksPerSlot ticks each, so that strftime('%Y/%m/%d') is the   *)
(* day number of a tick and strftime('%H%M') its slot within the day.      *)
(***************************************************************************)
EXTENDS Integers, Sequences, FiniteSets, TLC

\* ------------------------------------------------------------------ bounds
\* the scheduler calls BaseCollector.run at most MaxRuns times in all
MaxRuns == 2
\* at most MaxKeys distinct dated keys are ever written
MaxKeys == 2

\* ----------------------------------------------------- calendar and config
\* '%H%M' values per '%Y/%m/%d' value, and clock ticks per '%H%M' value
SlotsPerDay == 1
TicksPerSlot == 2
TicksPerDay == SlotsPerDay * TicksPerSlot

\* config.ARCHIVE_RETENTION_DAYS (environment variable ARCHIVE_RETENTION_DAYS,
\* 7 when unset), here one day
ARCHIVE_RETENTION_DAYS == 1

\* the clock runs from day 0 to the end of the day after the one on which a
\* file of day 0 has outlived the retention period
MaxDay == ARCHIVE_RETENTION_DAYS + 1
MaxNow == MaxDay * TicksPerDay + TicksPerDay - 1
\* config.ARCHIVE_ENABLED (environment variable, default 'true')
ARCHIVE_ENABLED == TRUE

Collectors == {"youbike", "weather"}
\* what collect() returns; every collector's result carries 'data'
Bodies == {"A", "B"}
\* a file whose write was interrupted (open(..., 'w') truncated it and
\* json.dump did not finish)
Torn == "TORN"
None == "None"
\* last_run before any successful run
NoTime == -1

\* ------------------------------------------------------------------- state
VARIABLES
    now,            \* wall clock (datetime.now())
    proc,           \* "running" | "crashed": the main loop of main.py
    S3_BUCKET,      \* config.S3_BUCKET is set (read once at start)
    CWA_API_KEY,    \* config.CWA_API_KEY is set
    run_count,      \* BaseCollector.run_count, per collector
    error_count,    \* BaseCollector.error_count
    last_run,       \* BaseCollector.last_run
    outcome,        \* what BaseCollector.run has just handed to the scheduler
    local,          \* dated files under LOCAL_DATA_DIR: key -> [body, mtime]
    local_latest,   \* <collector>/latest.json under LOCAL_DATA_DIR
    local_dirs,     \* date directories under LOCAL_DATA_DIR: <<collector, date>>
    s3,             \* dated objects of the bucket: key -> body
    s3_latest,      \* <collector>/latest.json objects of the bucket
    pc,             \* position of ArchiveTask.run: "idle" | "sync" | "cleanup"
    dirs,           \* collector directories the current loop has not visited
    cur,            \* collector directory being walked, or None
    files,          \* files of cur the glob has not yielded yet
    stats,          \* sync_directory's stats for cur
    total_stats,    \* _sync_to_s3's total_stats
    cleanup_stats,  \* _cleanup_local's stats
    deleted_count,  \* _cleanup_local's deleted_count for cur
    cutoff_date,    \* _cleanup_local's cutoff_date
    result,         \* what ArchiveTask.run has just handed to the scheduler
    hist,           \* observations of the archive run in progress or just over
    sync_hist,      \* per collector directory: how its last sync_directory went
    time,           \* time.time(), in seconds
    _access_token,  \* TDXAuth._access_token
    _token_expiry,  \* TDXAuth._token_expiry
    call,           \* what TDXAuth.get_access_token has just done
    wr,             \* the LocalStorage.save call in progress, if any
    response        \* what the API server has just answered

cvars == <<run_count, error_count, last_run, outcome>>
lvars == <<local, local_latest, local_dirs>>
svars == <<s3, s3_latest>>
locals == <<pc, dirs, cur, files, stats, total_stats, cleanup_stats,
            deleted_count, cutoff_date>>
cfgvars == <<proc, S3_BUCKET, CWA_API_KEY>>
\* the token cache of utils/auth.py
avars == <<time, _access_token, _token_expiry, call>>
\* the writer's position inside LocalStorage.save and the API's last answer
qvars == <<wr, response>>
xvars == <<avars, qvars>>
vars == <<now, cfgvars, cvars, lvars, svars, locals, result, hist, sync_hist,
          xvars>>

\* ----------------------------------------------------------------- helpers
Put(f, k, v) == [x \in DOMAIN f \cup {k} |-> IF x = k THEN v ELSE f[x]]
Remove(f, k) == [x \in DOMAIN f \ {k} |-> f[x]]
EmptyFn == [x \in {} |-> None]

\* timestamp.strftime('%Y/%m/%d')
date_str(t) == t \div TicksPerDay
\* timestamp.strftime('%H%M')
time_str(t) == (t % TicksPerDay) \div TicksPerSlot
\* f"{collector_name}/{date_str}/{collector_name}_{time_str}.json"
Key(c, t) == <<c, date_str(t), time_str(t)>>
\* the instant a key's date and HHMM components denote (captured_at, truncated)
captured_at(k) == k[2] * TicksPerDay + k[3] * TicksPerSlot

ZeroSync == [uploaded |-> 0, skipped |-> 0, failed |-> 0]
ZeroCleanup == [deleted |-> 0, kept |-> 0]

\* outcome.failed: collect() or the storage save of the cycle raised
\* outcome.body: what collect() returned, None when it raised
NoOutcome == [name |-> None, kind |-> "none", error |-> None, failed |-> FALSE,
              body |-> None]
\* call.exchanged: the call posted to TDX_AUTH_URL; call.returned: the token
\* it returned, or "raise"; call.issued_at and call.ttl: when the token in
\* the cache was issued and the expires_in it came with
NoCall == [exchanged |-> FALSE, returned |-> None, failure |-> None,
           issued_at |-> 0, ttl |-> 0]
\* no LocalStorage.save is between its first open() and its return
\* (wr.old: what latest.json held when the call started)
NoWrite == [at |-> "idle", c |-> None, b |-> None, k |-> None, old |-> None]
\* response.req names the handler; response.hot tells whether the handler
\* looked under LOCAL_DATA_DIR, response.listed whether it called
\* S3Storage.list_files_by_date and response.fetched whether it called
\* S3Storage.get_file
NoResponse == [req |-> None, collector |-> None, date |-> None, path |-> None,
               status |-> 0, data |-> None, files |-> {}, source |-> None,
               hot |-> FALSE, listed |-> FALSE, fetched |-> FALSE]
NoResult == [status |-> "none", sync |-> ZeroSync, cleanup |-> ZeroCleanup]
\* hist.sync: the sync_directory call that has just ended, on directory dir;
\* prev is how the call before it on dir went and truthful whether every
\* existence check of the call agreed with the bucket
NoSync == [status |-> "none", dir |-> None, stats |-> ZeroSync,
           prev |-> "none"]
NoHist == [exists_true |-> {}, called |-> FALSE, responded |-> FALSE,
           start_local |-> EmptyFn, start_s3 |-> {}, cutoff |-> 0,
           truthful |-> TRUE, sync |-> NoSync]

\* The scheduler does not keep a job's return value: the next thing the
\* loop does starts without it.
DropResult == result' = NoResult /\ hist' = NoHist /\ outcome' = NoOutcome

\* ------------------------------------------------------ storage/local.py
LocalSaveOutcomes ==
    {"ok", "dated_open_fail", "dated_write_fail",
     "latest_open_fail", "latest_write_fail"}

\* a save that writes the dated file and leaves latest.json alone
LocalStorage_save_dated_only(c, b, timestamp, wt, o) ==
    LET k == Key(c, timestamp)
        d == <<c, date_str(timestamp)>>
        opened == o # "dated_open_fail"
        dated == IF o = "dated_write_fail" THEN Torn ELSE b
    IN  [local |-> IF opened THEN Put(local, k, [body |-> dated, mtime |-> wt])
                   ELSE local,
         local_latest |-> local_latest,
         local_dirs |-> local_dirs \cup {d},
         raised |-> o # "ok"]

\* LocalStorage.save(collector_name, data, timestamp), the file system calls
\* ending as o, the files being written at time wt.  Yields the files after
\* the call and whether the call raised.
LocalStorage_save(c, b, timestamp, wt, o) ==
    LET k == Key(c, timestamp)
        d == <<c, date_str(timestamp)>>
        opened == o # "dated_open_fail"
        dated == IF o = "dated_write_fail" THEN Torn ELSE b
        lopened == o \in {"latest_write_fail", "ok"}
        lbody == IF o = "latest_write_fail" THEN Torn ELSE b
    IN  [local |-> IF opened THEN Put(local, k, [body |-> dated, mtime |-> wt])
                   ELSE local,
         local_latest |-> IF lopened THEN [local_latest EXCEPT ![c] = lbody]
                          ELSE local_latest,
         local_dirs |-> local_dirs \cup {d},
         raised |-> o # "ok"]

\* json.load(f): a file's content stands for the record json.dump wrote
\* into it (the collectors' results are dicts with string keys, lists,
\* strings and numbers, which json.load gives back as they were); a file
\* whose dump did not finish is not a JSON document
json_load(text) == IF text = Torn THEN "JSONDecodeError" ELSE text

\* LocalStorage.get_latest(collector_name)
LocalStorage_get_latest(c) ==
    IF local_latest[c] = None THEN None ELSE json_load(local_latest[c])

\* --------------------------------------------------------- storage/s3.py
S3SaveOutcomes == {"ok", "dated_put_fail", "latest_put_fail"}

\* S3Storage.save(collector_name, data, timestamp): two put_object calls.
S3Storage_save(c, b, timestamp, o) ==
    LET k == Key(c, timestamp)
    IN  [s3 |-> IF o # "dated_put_fail" THEN Put(s3, k, b) ELSE s3,
         s3_latest |-> IF o = "ok" THEN [s3_latest EXCEPT ![c] = b]
                       ELSE s3_latest,
         raised |-> o # "ok"]

\* Answers head_object can give for a key: the object's metadata ("ok", only
\* when the object is there), a ClientError (404 for a missing object, or
\* 403/5xx whatever the bucket holds), or an exception that is not a
\* ClientError (endpoint unreachable, connect or read timeout).
HeadOutcomes(k) ==
    (IF k \in DOMAIN s3 THEN {"ok"} ELSE {}) \cup {"client_error", "conn_error"}

\* file_exists taking every ClientError for "the object is there"
file_exists_error_is_true(h) ==
    IF h = "conn_error" THEN "raise" ELSE "True"

\* S3Storage.file_exists(s3_key): True, False, or the exception escapes.
file_exists(h) ==
    CASE h = "ok" -> "True"
      [] h = "client_error" -> "False"
      [] OTHER -> "raise"

UploadOutcomes == {"ok", "error"}

\* an upload that fails every time
upload_file_never(u) == FALSE

\* S3Storage.upload_file(local_path, s3_key): every exception becomes False.
upload_file(u) == u = "ok"

\* -------------------------------------------------------- utils/auth.py
\* "time.time() < self._token_expiry - 300"
REFRESH_MARGIN == 300
\* auth_data.get('expires_in', 86400)
DEFAULT_EXPIRES_IN == 86400
\* the clock is looked at every TimeStep seconds, up to MaxTime
TimeStep == REFRESH_MARGIN \div 3
MaxTime == 4 * REFRESH_MARGIN

Tokens == {"t1", "t2"}
\* expires_in values of the token endpoint: below, just above and well above
\* the margin
ExpiresIn == {REFRESH_MARGIN - TimeStep, REFRESH_MARGIN + TimeStep,
              2 * REFRESH_MARGIN}
\* response.json() of a 2xx answer, with or without 'expires_in'
AuthData == [access_token : Tokens, expires_in : ExpiresIn]
                \cup [access_token : Tokens]
\* requests.post raises (connection error, timeout), raise_for_status()
\* raises (non-2xx), or the 2xx body is not JSON with 'access_token'
ExchangeFailures == {"network_error", "http_error", "bad_body"}

\* auth_data.get('expires_in', 86400)
expires_in(auth_data) ==
    IF "expires_in" \in DOMAIN auth_data THEN auth_data.expires_in
    ELSE DEFAULT_EXPIRES_IN

\* a cache test without the margin
lease_valid_no_margin(token, t, expiry) == token # None /\ t < expiry

\* self._access_token and time.time() < self._token_expiry - 300
lease_valid(token, t, expiry) == token # None /\ t < expiry - REFRESH_MARGIN

\* an exchange whose failure forgets the cached token
exchange_failed_clears(token, expiry) == [token |-> None, expiry |-> 0]

\* the post, raise_for_status() or response.json() raised: lines 40-41 are
\* not reached and the attributes are what they were
exchange_failed(token, expiry) == [token |-> token, expiry |-> expiry]

\* TDXAuth.get_access_token(), the exchange, when one is made, ending as e
\* and a 2xx answer carrying x: the attributes after the call and what the
\* call did.
get_access_token(e, x) ==
    IF lease_valid(_access_token, time, _token_expiry)
    THEN [token |-> _access_token, expiry |-> _token_expiry,
          call |-> [call EXCEPT !.exchanged = FALSE,
                                !.returned = _access_token,
                                !.failure = None]]
    ELSE IF e \in ExchangeFailures
    THEN [token |-> exchange_failed(_access_token, _token_expiry).token,
          expiry |-> exchange_failed(_access_token, _token_expiry).expiry,
          call |-> [call EXCEPT !.exchanged = TRUE, !.returned = "raise",
                                !.failure = e]]
    ELSE [token |-> x.access_token,
          expiry |-> time + expires_in(x),
          call |-> [exchanged |-> TRUE, returned |-> x.access_token,
                    failure |-> None, issued_at |-> time,
                    ttl |-> expires_in(x)]]

\* a collector asks for the auth header (get_auth_header)
GetAccessToken ==
    \E e \in {"ok"} \cup ExchangeFailures, x \in AuthData :
        /\ proc = "running"
        /\ _access_token' = get_access_token(e, x).token
        /\ _token_expiry' = get_access_token(e, x).expiry
        /\ call' = get_access_token(e, x).call
        /\ UNCHANGED <<now, cfgvars, cvars, lvars, svars, locals, result, hist,
                       sync_hist, time, qvars>>

\* time passes between two calls
AuthTick ==
    /\ time < MaxTime
    /\ time' = time + TimeStep
    /\ call' = [call EXCEPT !.exchanged = FALSE, !.returned = None,
                            !.failure = None]
    /\ UNCHANGED <<now, cfgvars, cvars, lvars, svars, locals, result, hist,
                   sync_hist, _access_token, _token_expiry, qvars>>

\* ------------------------------------------------------ utils/notify.py
NotifyOutcomes == {"sent", "fail"}

\* send_webhook without its try/except: a failed post raises
send_webhook_unguarded(n) == IF n = "fail" THEN "raised" ELSE "returned"

\* send_webhook / send_line_notify: the request is inside try/except
\* Exception, so a failed post is printed and the call returns.
send_webhook(n) == "returned"

\* notify_success(collector_name, stats)
notify_success(n) == send_webhook(n)

\* notify_error whose LINE notify is outside any try/except
notify_error_unguarded(n) == IF n = "fail" THEN "raised" ELSE "returned"

\* notify_error(collector_name, error): webhook, then LINE notify
notify_error(n) == IF send_webhook(n) = "raised" THEN "raised" ELSE "returned"

\* --------------------------------------------------- collectors/base.py
CollectOutcomes == {"ok", "raise"}

\* storage.get_storage(): S3Storage when S3_BUCKET is set, else LocalStorage
get_storage == IF S3_BUCKET THEN "S3Storage" ELSE "LocalStorage"

SaveOutcomes == IF get_storage = "S3Storage" THEN S3SaveOutcomes
                ELSE LocalSaveOutcomes

save_raised(so) == so # "ok"

\* a try block whose storage.save failure is not seen as an exception
try_block_save_unchecked(co, so, n) ==
    IF co = "raise" THEN "collect" ELSE None

\* The exception, if any, that leaves the try block of BaseCollector.run.
try_block(co, so, n) ==
    IF co = "raise" THEN "collect"
    ELSE IF save_raised(so) THEN "storage"
    ELSE IF notify_success(n) = "raised" THEN "notify"
    ELSE None

\* What BaseCollector.run hands to its caller.
run_returns(co, so, n) ==
    IF try_block(co, so, n) = None THEN "stats"
    ELSE IF notify_error(n) = "raised" THEN "raised"
    ELSE "error"

\* a run() that stamps last_run before its try block
last_run_before_try(exc, timestamp, prev) == timestamp

\* self.last_run = timestamp follows collect() and storage.save in the try
\* block and precedes notify_success: it is reached unless one of the two
\* raised
last_run_after(exc, timestamp, prev) ==
    IF exc \in {"collect", "storage"} THEN prev ELSE timestamp

\* main.run_collectors: the list of collectors; YouBikeCollector is always
\* built, WeatherCollector only when config.CWA_API_KEY is set
collectors == {"youbike"} \cup (IF CWA_API_KEY THEN {"weather"} ELSE {})

\* self.storage.save(self.name, result, timestamp): the collector's storage
\* back end stores body b under the key of timestamp, the calls ending as so.
storage_save(c, b, timestamp, so) ==
    LET ls == LocalStorage_save(c, b, timestamp, now, so)
        ss == S3Storage_save(c, b, timestamp, so)
    IN  /\ \/ Key(c, timestamp) \in DOMAIN local \cup DOMAIN s3
           \/ Cardinality(DOMAIN local \cup DOMAIN s3) < MaxKeys
        /\ IF get_storage = "LocalStorage"
           THEN /\ local' = ls.local
                /\ local_latest' = ls.local_latest
                /\ local_dirs' = ls.local_dirs
                /\ sync_hist' = IF DOMAIN ls.local # DOMAIN local
                                THEN [sync_hist EXCEPT ![c] = "none"]
                                ELSE sync_hist
                /\ UNCHANGED svars
           ELSE /\ s3' = ss.s3
                /\ s3_latest' = ss.s3_latest
                /\ UNCHANGED <<lvars, sync_hist>>

\* calls of BaseCollector.run the scheduler has made since the process started
TotalRuns == run_count["youbike"] + run_count["weather"]

\* BaseCollector.run() of collector c, called from the scheduler loop.
\* collect() ends as co; the body collected is b; the storage calls end as
\* so and the notification posts as n.
run(c, co, b, so, n) ==
    LET timestamp == now
        exc == try_block(co, so, n)
        ret == run_returns(co, so, n)
    IN  /\ proc = "running"
        /\ pc = "idle"
        /\ c \in collectors
        /\ TotalRuns < MaxRuns
        /\ run_count' = [run_count EXCEPT ![c] = @ + 1]
        /\ error_count' = [error_count EXCEPT ![c] = IF exc = None THEN @ ELSE @ + 1]
        /\ last_run' = [last_run EXCEPT ![c] = last_run_after(exc, timestamp, @)]
        /\ outcome' = [name |-> c, kind |-> ret, error |-> exc,
                       failed |-> (co = "raise" \/ save_raised(so)),
                       body |-> IF co = "ok" THEN b ELSE None]
        /\ IF co = "ok"
           THEN storage_save(c, b, timestamp, so)
           ELSE UNCHANGED <<lvars, svars, sync_hist>>
        /\ proc' = IF ret = "raised" THEN "crashed" ELSE proc
        /\ result' = NoResult /\ hist' = NoHist
        /\ UNCHANGED <<now, S3_BUCKET, CWA_API_KEY, locals, xvars>>

\* (a collect() that raises yields no body and reaches no storage call)
CollectorRun ==
    \E c \in Collectors, co \in CollectOutcomes, b \in Bodies,
       so \in SaveOutcomes, n \in NotifyOutcomes :
        /\ co = "raise" => b = "A" /\ so = "ok"
        /\ run(c, co, b, so, n)

\* The storage tier seen on its own: a collector's cycle reaches
\* self.storage.save with the cycle's timestamp and a body, and the calls of
\* the save succeed (RunSpec has the saves that fail).
Save ==
    \E c \in collectors, b \in Bodies :
        /\ proc = "running"
        /\ pc = "idle"
        /\ storage_save(c, b, now, "ok")
        /\ DropResult
        /\ response' = NoResponse
        /\ UNCHANGED <<now, cfgvars, run_count, error_count, last_run, locals,
                       avars, wr>>

\* ------------------------------------------------------ tasks/archive.py
\* <collector>/latest.json, written as a key whose date component is -1
LatestKey(c) == <<c, -1, 0>>
is_latest(f) == f[2] = -1

\* collector directories under LOCAL_DATA_DIR (iterdir + is_dir); a
\* directory without any .json file yields nothing in either loop
CollectorDirs ==
    {c \in Collectors : local_latest[c] # None \/ \E k \in DOMAIN local : k[1] = c}

DatedFiles(c) == {k \in DOMAIN local : k[1] = c}

\* collector_dir.glob('**/*.json')
glob(c) == DatedFiles(c) \cup (IF local_latest[c] # None THEN {LatestKey(c)} ELSE {})

\* sync_directory called without skip_existing
skip_existing_off == FALSE

\* _sync_to_s3 always passes skip_existing=True
skip_existing == TRUE

\* main.run_archive_task: the daily job exists only with both settings
archive_scheduled == ARCHIVE_ENABLED /\ S3_BUCKET

\* schedule.run_pending() calls the due jobs one after another in the main
\* thread: a job is entered only when no other job is running
scheduler_free == pc = "idle" /\ wr.at = "idle"

\* ArchiveTask.run is entered by the scheduler loop.
ArchiveStart ==
    /\ proc = "running"
    /\ scheduler_free
    /\ archive_scheduled
    /\ pc' = "sync"
    /\ dirs' = CollectorDirs
    /\ cur' = None
    /\ files' = {}
    /\ stats' = ZeroSync
    /\ total_stats' = ZeroSync
    /\ cleanup_stats' = ZeroCleanup
    /\ deleted_count' = 0
    /\ cutoff_date' = 0
    /\ result' = NoResult
    /\ hist' = [NoHist EXCEPT !.start_local = local, !.start_s3 = DOMAIN s3]
    /\ UNCHANGED <<now, cfgvars, cvars, lvars, svars, sync_hist, xvars>>

\* the locals of run() and of the functions it called are gone
LocalsGone ==
    /\ pc' = "idle"
    /\ dirs' = {}
    /\ cur' = None
    /\ files' = {}
    /\ stats' = ZeroSync
    /\ total_stats' = ZeroSync
    /\ cleanup_stats' = ZeroCleanup
    /\ deleted_count' = 0
    /\ cutoff_date' = 0

\* An exception leaves ArchiveTask.run: schedule.run_pending() does not
\* catch it, so it ends the while loop of main().
ArchiveRaise ==
    /\ LocalsGone
    /\ result' = [status |-> "raised", sync |-> ZeroSync, cleanup |-> ZeroCleanup]
    /\ proc' = "crashed"

\* _sync_to_s3: the loop takes the next collector directory and calls
\* sync_directory on it.
SyncEnterDir ==
    /\ pc = "sync" /\ cur = None /\ dirs # {}
    /\ \E c \in dirs :
        /\ cur' = c
        /\ dirs' = dirs \ {c}
        /\ files' = glob(c)
        /\ hist' = [hist EXCEPT !.truthful = TRUE, !.sync = NoSync]
    /\ stats' = ZeroSync
    /\ UNCHANGED <<now, cfgvars, cvars, lvars, svars, pc, total_stats,
                   cleanup_stats, deleted_count, cutoff_date, result, sync_hist,
                   xvars>>

\* sync_directory: one iteration of the loop over the glob, on file f; the
\* head_object call ends as h and the upload as u.
sync_file(f, h, u) ==
    LET fe == file_exists(h)
        lied == h # "ok" /\ f \in DOMAIN s3
        next == /\ files' = files \ {f}
                /\ UNCHANGED <<pc, dirs, cur, total_stats, cleanup_stats,
                               deleted_count, cutoff_date, result, proc>>
    IN  IF is_latest(f)
        THEN next /\ UNCHANGED <<stats, hist, s3>>
        ELSE IF skip_existing /\ fe = "raise"
        THEN /\ ArchiveRaise
             /\ hist' = [hist EXCEPT !.called = TRUE,
                                     !.sync = [NoSync EXCEPT !.status = "raised",
                                                             !.dir = cur]]
             /\ UNCHANGED s3
        ELSE IF skip_existing /\ fe = "True"
        THEN /\ next
             /\ stats' = [stats EXCEPT !.skipped = @ + 1]
             /\ hist' = [hist EXCEPT !.called = TRUE, !.responded = TRUE]
             /\ UNCHANGED s3
        ELSE IF upload_file(u)
        THEN /\ next
             /\ stats' = [stats EXCEPT !.uploaded = @ + 1]
             /\ s3' = Put(s3, f, local[f].body)
             /\ hist' = [hist EXCEPT !.called = TRUE, !.responded = TRUE,
                                     !.truthful = @ /\ ~lied]
        ELSE /\ next
             /\ stats' = [stats EXCEPT !.failed = @ + 1]
             /\ hist' = [hist EXCEPT !.called = TRUE, !.responded = TRUE,
                                     !.truthful = @ /\ ~lied]
             /\ UNCHANGED s3

SyncFile ==
    /\ pc = "sync" /\ cur # None /\ files # {}
    /\ \E f \in files, u \in UploadOutcomes :
        \E h \in HeadOutcomes(f) : sync_file(f, h, u)
    /\ UNCHANGED <<now, S3_BUCKET, CWA_API_KEY, cvars, lvars, s3_latest, sync_hist,
                   xvars>>

\* sync_directory returns its stats and _sync_to_s3 adds them to total_stats.
SyncLeaveDir ==
    /\ pc = "sync" /\ cur # None /\ files = {}
    /\ total_stats' = [uploaded |-> total_stats.uploaded + stats.uploaded,
                       skipped |-> total_stats.skipped + stats.skipped,
                       failed |-> total_stats.failed + stats.failed]
    /\ hist' = [hist EXCEPT
           !.sync = [status |-> "returned", dir |-> cur, stats |-> stats,
                     prev |-> sync_hist[cur]]]
    /\ sync_hist' = [sync_hist EXCEPT
           ![cur] = IF stats.failed = 0 THEN "clean" ELSE "failed"]
    /\ cur' = None
    /\ stats' = ZeroSync
    /\ UNCHANGED <<now, cfgvars, cvars, lvars, svars, pc, dirs, files,
                   cleanup_stats, deleted_count, cutoff_date, result, xvars>>

\* a run() that starts the cleanup between two directories of the sync
sync_returned_early == cur = None

\* sync_stats = self._sync_to_s3() has returned: its loop over the collector
\* directories has ended
sync_returned == cur = None /\ dirs = {}

\* run(): _sync_to_s3 has returned (no directory left) and _cleanup_local
\* starts by computing cutoff_date = now - timedelta(days=retention).
CleanupBegin ==
    /\ pc = "sync" /\ sync_returned
    /\ pc' = "cleanup"
    /\ cutoff_date' = now - ARCHIVE_RETENTION_DAYS * TicksPerDay
    /\ hist' = [hist EXCEPT !.cutoff = now - ARCHIVE_RETENTION_DAYS * TicksPerDay,
                            !.truthful = TRUE, !.sync = NoSync]
    /\ cleanup_stats' = ZeroCleanup
    /\ dirs' = CollectorDirs
    /\ UNCHANGED <<now, cfgvars, cvars, lvars, svars, cur, files, stats,
                   total_stats, deleted_count, result, sync_hist, xvars>>

\* _cleanup_local: the outer loop takes the next collector directory.
CleanupEnterDir ==
    /\ pc = "cleanup" /\ cur = None /\ dirs # {}
    /\ \E c \in dirs :
        /\ cur' = c
        /\ dirs' = dirs \ {c}
        /\ files' = glob(c)
    /\ deleted_count' = 0
    /\ UNCHANGED <<now, cfgvars, cvars, lvars, svars, pc, stats, total_stats,
                   cleanup_stats, cutoff_date, result, hist, sync_hist, xvars>>

\* a cleanup that does not look at the age of a file
expired_whatever_age(file_mtime, cutoff) == TRUE

\* a cutoff comparison that also takes a file written exactly at the cutoff
expired_inclusive(file_mtime, cutoff) == file_mtime <= cutoff

\* file_mtime < cutoff_date
expired(file_mtime, cutoff) == file_mtime < cutoff

\* an unlink that does not look at the answer of file_exists
may_unlink_unchecked(fe) == fe # "raise"

\* if self.s3.file_exists(s3_key): json_file.unlink()
may_unlink(fe) == fe = "True"

\* _cleanup_local: one iteration of the inner loop, on file f; the
\* head_object call, when one is made, ends as h.
cleanup_file(f, h) ==
    LET fe == file_exists(h)
        next == /\ files' = files \ {f}
                /\ UNCHANGED <<pc, dirs, cur, stats, total_stats, cutoff_date,
                               result, proc>>
        keep == /\ next
                /\ cleanup_stats' = [cleanup_stats EXCEPT !.kept = @ + 1]
                /\ UNCHANGED <<local, deleted_count>>
        seen == IF fe = "True" THEN {f} ELSE {}
    IN  IF is_latest(f)
        THEN keep /\ UNCHANGED hist
        ELSE IF ~expired(local[f].mtime, cutoff_date)
        THEN keep /\ UNCHANGED hist
        ELSE IF fe = "raise"
        THEN /\ ArchiveRaise
             /\ hist' = [hist EXCEPT !.called = TRUE]
             /\ UNCHANGED local
        ELSE IF may_unlink(fe)
        THEN /\ next
             /\ local' = Remove(local, f)
             /\ deleted_count' = deleted_count + 1
             /\ cleanup_stats' = [cleanup_stats EXCEPT !.deleted = @ + 1]
             /\ hist' = [hist EXCEPT !.called = TRUE, !.responded = TRUE,
                                     !.exists_true = @ \cup seen]
        ELSE /\ keep
             /\ hist' = [hist EXCEPT !.called = TRUE, !.responded = TRUE,
                                     !.exists_true = @ \cup seen]

CleanupFile ==
    /\ pc = "cleanup" /\ cur # None /\ files # {}
    /\ \E f \in files :
        \E h \in HeadOutcomes(f) : cleanup_file(f, h)
    /\ UNCHANGED <<now, S3_BUCKET, CWA_API_KEY, cvars, local_latest, local_dirs,
                   svars, sync_hist, xvars>>

\* head_object of a bucket that is reachable: the object's metadata, or the
\* 404 ClientError of a key that is not there
ReachableHead(k) == IF k \in DOMAIN s3 THEN "ok" ELSE "client_error"

\* the iterations of the two loops when the bucket is reachable
SyncFileReachable ==
    /\ pc = "sync" /\ cur # None /\ files # {}
    /\ \E f \in files, u \in UploadOutcomes : sync_file(f, ReachableHead(f), u)
    /\ UNCHANGED <<now, S3_BUCKET, CWA_API_KEY, cvars, lvars, s3_latest, sync_hist,
                   xvars>>

CleanupFileReachable ==
    /\ pc = "cleanup" /\ cur # None /\ files # {}
    /\ \E f \in files : cleanup_file(f, ReachableHead(f))
    /\ UNCHANGED <<now, S3_BUCKET, CWA_API_KEY, cvars, local_latest, local_dirs,
                   svars, sync_hist, xvars>>

\* an iteration of sync_directory whose upload_file returned True
UploadSucceeds == SyncFileReachable /\ stats'.uploaded > stats.uploaded

\* _cleanup_empty_dirs(base_dir): every directory below base_dir that has
\* no entry is removed, deepest first.
_cleanup_empty_dirs(c) ==
    {d \in local_dirs : d[1] # c \/ \E k \in DOMAIN local : k[1] = c /\ k[2] = d[2]}

\* _cleanup_local: the inner loop over cur is over.
CleanupLeaveDir ==
    /\ pc = "cleanup" /\ cur # None /\ files = {}
    /\ local_dirs' = IF deleted_count > 0 THEN _cleanup_empty_dirs(cur) ELSE local_dirs
    /\ cur' = None
    /\ deleted_count' = 0
    /\ UNCHANGED <<now, cfgvars, cvars, local, local_latest, svars, pc, dirs,
                   files, stats, total_stats, cleanup_stats, cutoff_date,
                   result, hist, sync_hist, xvars>>

\* run() returns {'sync': sync_stats, 'cleanup': cleanup_stats}.
ArchiveReturn ==
    /\ pc = "cleanup" /\ cur = None /\ dirs = {}
    /\ LocalsGone
    /\ result' = [status |-> "returned", sync |-> total_stats, cleanup |-> cleanup_stats]
    /\ UNCHANGED <<now, cfgvars, cvars, lvars, svars, hist, sync_hist, xvars>>

\* ------------------------------------- storage/local.py, call by call
\* LocalStorage.save as the operating system sees it: mkdir and
\* open(filepath, 'w'), which creates the dated file empty or empties it.
SaveOpenDated ==
    \E c \in collectors, b \in Bodies :
        LET k == Key(c, now)
        IN  /\ proc = "running"
            /\ scheduler_free
            /\ get_storage = "LocalStorage"
            /\ \/ k \in DOMAIN local \cup DOMAIN s3
               \/ Cardinality(DOMAIN local \cup DOMAIN s3) < MaxKeys
            /\ local' = Put(local, k, [body |-> Torn, mtime |-> now])
            /\ local_dirs' = local_dirs \cup {<<c, date_str(now)>>}
            /\ sync_hist' = IF k \in DOMAIN local THEN sync_hist
                            ELSE [sync_hist EXCEPT ![c] = "none"]
            /\ wr' = [at |-> "dated", c |-> c, b |-> b, k |-> k,
                      old |-> local_latest[c]]
            /\ response' = NoResponse
            /\ DropResult
            /\ UNCHANGED <<now, cfgvars, run_count, error_count, last_run,
                           local_latest, svars, locals, avars>>

\* json.dump(data, f) into the dated file and the end of its with block
SaveDumpDated ==
    /\ wr.at = "dated"
    /\ local' = Put(local, wr.k, [body |-> wr.b, mtime |-> now])
    /\ wr' = [wr EXCEPT !.at = "dated_done"]
    /\ response' = NoResponse
    /\ UNCHANGED <<now, cfgvars, cvars, local_latest, local_dirs, svars, locals,
                   result, hist, sync_hist, avars>>

\* open(latest_file, 'w'): latest.json is created empty or emptied
SaveOpenLatest ==
    /\ wr.at = "dated_done"
    /\ local_latest' = [local_latest EXCEPT ![wr.c] = Torn]
    /\ wr' = [wr EXCEPT !.at = "latest"]
    /\ response' = NoResponse
    /\ UNCHANGED <<now, cfgvars, cvars, local, local_dirs, svars, locals,
                   result, hist, sync_hist, avars>>

\* json.dump(data, f) into latest.json; save returns filepath
SaveDumpLatest ==
    /\ wr.at = "latest"
    /\ local_latest' = [local_latest EXCEPT ![wr.c] = wr.b]
    /\ wr' = NoWrite
    /\ response' = NoResponse
    /\ UNCHANGED <<now, cfgvars, cvars, local, local_dirs, svars, locals,
                   result, hist, sync_hist, avars>>

\* a cycle's save with a bucket configured: S3Storage.save, two put_object
\* calls, each of which replaces its object in one piece
SaveToBucket ==
    /\ get_storage = "S3Storage"
    /\ wr.at = "idle"
    /\ Save

\* ---------------------------------------------------------- api/server.py
\* get_s3_storage(): an S3Storage when config.S3_BUCKET is set, else None
get_s3_storage == S3_BUCKET

\* collector_dir.exists(): LocalStorage.save has made the directory
collector_dir_exists(c) ==
    \/ local_latest[c] # None
    \/ \E d \in local_dirs : d[1] = c
    \/ DatedFiles(c) # {}

\* files[0] of the dated files sorted by st_mtime, newest first (any of the
\* newest when several share the mtime)
newest_dated(c) ==
    {k \in DatedFiles(c) :
        \A j \in DatedFiles(c) : local[j].mtime <= local[k].mtime}

\* the body of the 200 answer of get_latest, or the 500 Flask makes of the
\* JSONDecodeError that json.load raises
latest_answer(c, text) ==
    IF json_load(text) = "JSONDecodeError"
    THEN [NoResponse EXCEPT !.req = "latest", !.collector = c, !.status = 500,
                            !.hot = TRUE]
    ELSE [NoResponse EXCEPT !.req = "latest", !.collector = c, !.status = 200,
                            !.data = json_load(text), !.source = "local",
                            !.hot = TRUE]

\* GET /api/data/<collector>/latest: the answers get_latest can give
get_latest(c) ==
    IF ~collector_dir_exists(c)
    THEN {[NoResponse EXCEPT !.req = "latest", !.collector = c, !.status = 404,
                             !.hot = TRUE]}
    ELSE IF local_latest[c] # None
    THEN {latest_answer(c, local_latest[c])}
    ELSE IF DatedFiles(c) = {}
    THEN {[NoResponse EXCEPT !.req = "latest", !.collector = c, !.status = 404,
                             !.hot = TRUE]}
    ELSE {latest_answer(c, local[k].body) : k \in newest_dated(c)}

\* the handler runs in a thread of the Flask server, at any moment
ApiGetLatest ==
    \E c \in Collectors :
        /\ proc = "running"
        /\ response' \in get_latest(c)
        /\ UNCHANGED <<now, cfgvars, cvars, lvars, svars, locals, result, hist,
                       sync_hist, avars, wr>>

\* the <date> segment of the URL: a string of the form YYYY-MM-DD naming a
\* day, or any other string
DateStrings == {<<"ymd", d>> : d \in 0..MaxDay} \cup {<<"junk", 0>>}

\* datetime.strptime(date, '%Y-%m-%d') and parsed_date.strftime('%Y/%m/%d')
\* the first raises ValueError for a string of another form
valid_date(date) == date[1] = "ymd"
strptime(date) == date[2]

\* date_dir.exists() and date_dir.glob('*.json')
local_files_by_date(c, day) ==
    IF <<c, day>> \in local_dirs
    THEN {k \in DOMAIN local : k[1] = c /\ k[2] = day}
    ELSE {}

\* S3Storage.list_files_by_date(collector_name, date): list_files on the
\* prefix "<collector>/<YYYY/MM/DD>/"
list_files_by_date(c, day) == {k \in DOMAIN s3 : k[1] = c /\ k[2] = day}

ListOutcomes == {"ok", "error"}

\* a handler that asks the bucket whatever the local directory holds
consult_s3_always(found) == TRUE

\* "if not result:" the bucket is asked only when no local file was found
consult_s3(found) == found = {}

\* GET /api/data/<collector>/<date>; the listing of the bucket, when one is
\* made, ends as lo.
get_by_date(c, date, lo) ==
    LET day == strptime(date)
        base == [NoResponse EXCEPT !.req = "by_date", !.collector = c,
                                   !.date = date]
        hot == {[key |-> k, source |-> "local"] : k \in local_files_by_date(c, day)}
        asked == consult_s3(hot) /\ get_s3_storage
        cold == IF asked
                THEN {[key |-> k, source |-> "s3"] : k \in list_files_by_date(c, day)}
                ELSE {}
        found == hot \cup cold
        source == IF asked /\ found # {} THEN "s3" ELSE "local"
    IN  IF ~valid_date(date) THEN [base EXCEPT !.status = 400]
        ELSE IF asked /\ lo = "error"
        THEN [base EXCEPT !.status = 500, !.hot = TRUE, !.listed = TRUE]
        ELSE IF found = {}
        THEN [base EXCEPT !.status = 404, !.hot = TRUE, !.listed = asked]
        ELSE [base EXCEPT !.status = 200, !.files = found, !.source = source,
                          !.hot = TRUE, !.listed = asked]

ApiGetByDate ==
    \E c \in Collectors, date \in DateStrings, lo \in ListOutcomes :
        /\ proc = "running"
        /\ response' = get_by_date(c, date, lo)
        /\ UNCHANGED <<now, cfgvars, cvars, lvars, svars, locals, result, hist,
                       sync_hist, avars, wr>>

\* the <path:filepath> segment of the URL: the relative path of a dated
\* file ("YYYY/MM/DD/<collector>_HHMM.json"), "latest.json", or a path with
\* ".." in it
FilePaths ==
    {<<"dated", d, 0>> : d \in 0..MaxDay}
        \cup {<<"latest", -1, 0>>, <<"dotdot", 0, 0>>}

\* a path test that lets every path through
has_dotdot_unchecked(path) == FALSE

\* '..' in filepath
has_dotdot(path) == path[1] = "dotdot"

\* config.LOCAL_DATA_DIR / collector / filepath and f"{collector}/{filepath}"
\* (a path with ".." names a file outside the collector's directory)
path_key(c, path) == <<c, path[2], path[3]>>

\* file_path.exists() and the bytes generate() streams from it
local_content(c, path) ==
    IF path[1] = "latest" THEN local_latest[c]
    ELSE IF path[1] = "dated" /\ path_key(c, path) \in DOMAIN local
    THEN local[path_key(c, path)].body
    ELSE IF path[1] = "dotdot" THEN "outside"
    ELSE None

\* the bucket's object under s3_key, None when there is none
s3_content(c, path) ==
    IF path[1] = "latest" THEN s3_latest[c]
    ELSE IF path[1] = "dated" /\ path_key(c, path) \in DOMAIN s3
    THEN s3[path_key(c, path)]
    ELSE None

\* get_object answers with the object or NoSuchKey ("ok"), with another
\* ClientError, or the call fails without one
GetOutcomes == {"ok", "client_error", "conn_error"}

\* S3Storage.get_file(s3_key): the bytes, None for NoSuchKey, or the
\* exception escapes
get_file(c, path, g) == IF g = "ok" THEN s3_content(c, path) ELSE "raise"

\* "if content:" bytes are true unless empty; a file whose dump did not
\* finish is empty (nothing flushed yet) or partial
truthy(content, empty) == content # None /\ ~(content = Torn /\ empty)

\* the part of download_file after the local miss
download_from_s3(base, content, empty) ==
    IF content = "raise"
    THEN [base EXCEPT !.status = 500, !.hot = TRUE, !.fetched = TRUE]
    ELSE IF truthy(content, empty)
    THEN [base EXCEPT !.status = 200, !.data = content, !.source = "s3",
                      !.hot = TRUE, !.fetched = TRUE]
    ELSE [base EXCEPT !.status = 404, !.hot = TRUE, !.fetched = TRUE]

\* GET /api/download/<collector>/<path:filepath>: the responses the handler
\* can give
download_file(c, path) ==
    LET base == [NoResponse EXCEPT !.req = "download", !.collector = c,
                                   !.path = path]
    IN  IF has_dotdot(path) THEN {[base EXCEPT !.status = 400]}
        ELSE IF local_content(c, path) # None
        THEN {[base EXCEPT !.status = 200, !.data = local_content(c, path),
                           !.source = "local", !.hot = TRUE]}
        ELSE IF ~get_s3_storage
        THEN {[base EXCEPT !.status = 404, !.hot = TRUE]}
        ELSE {download_from_s3(base, get_file(c, path, g), empty) :
                g \in GetOutcomes, empty \in BOOLEAN}

ApiDownload ==
    \E c \in Collectors, path \in FilePaths :
        /\ proc = "running"
        /\ response' \in download_file(c, path)
        /\ UNCHANGED <<now, cfgvars, cvars, lvars, svars, locals, result, hist,
                       sync_hist, avars, wr>>

\* ---------------------------------------------------------------- main.py
\* time passes while the scheduler loop sleeps
Tick ==
    /\ pc = "idle"
    /\ now < MaxNow
    /\ now' = now + 1
    /\ DropResult
    /\ response' = NoResponse
    /\ UNCHANGED <<cfgvars, run_count, error_count, last_run, lvars, svars,
                   locals, sync_hist, avars, wr>>

\* The process is started again (deployment, crash recovery): main() reads
\* the configuration and run_collectors() builds fresh collector objects.
\* The data directory and the bucket outlive the process; a bucket, once
\* configured, stays configured.  The token cache and a save in progress
\* are gone with the old process; a file the save was writing stays as it is.
Restart ==
    /\ pc = "idle"
    /\ proc' = "running"
    /\ S3_BUCKET' \in {S3_BUCKET, TRUE}
    /\ run_count' = [c \in Collectors |-> 0]
    /\ error_count' = [c \in Collectors |-> 0]
    /\ last_run' = [c \in Collectors |-> NoTime]
    /\ DropResult
    /\ _access_token' = None
    /\ _token_expiry' = 0
    /\ call' = NoCall
    /\ wr' = NoWrite
    /\ response' = NoResponse
    /\ UNCHANGED <<now, CWA_API_KEY, lvars, svars, locals, sync_hist, time>>

\* main(): the state when the scheduler loop is entered for the first time
Start ==
    /\ now = 0
    /\ proc = "running"
    /\ S3_BUCKET \in BOOLEAN
    /\ run_count = [c \in Collectors |-> 0]
    /\ error_count = [c \in Collectors |-> 0]
    /\ last_run = [c \in Collectors |-> NoTime]
    /\ outcome = NoOutcome
    /\ local = EmptyFn
    /\ local_latest = [c \in Collectors |-> None]
    /\ local_dirs = {}
    /\ s3 = EmptyFn
    /\ s3_latest = [c \in Collectors |-> None]
    /\ pc = "idle"
    /\ dirs = {}
    /\ cur = None
    /\ files = {}
    /\ stats = ZeroSync
    /\ total_stats = ZeroSync
    /\ cleanup_stats = ZeroCleanup
    /\ deleted_count = 0
    /\ cutoff_date = 0
    /\ result = NoResult
    /\ hist = NoHist
    /\ sync_hist = [c \in Collectors |-> "none"]
    /\ time = 0
    /\ _access_token = None
    /\ _token_expiry = 0
    /\ call = NoCall
    /\ wr = NoWrite
    /\ response = NoResponse

\* The run loop of the collectors, both collectors registered.
RunInit == Start /\ CWA_API_KEY = TRUE

RunNext ==
    \/ CollectorRun
    \/ Tick

RunSpec == RunInit /\ [][RunNext]_vars

\* The storage tiers and the archive task, one collector registered.
Init == Start /\ CWA_API_KEY = FALSE

Next ==
    \/ Save
    \/ ArchiveStart
    \/ SyncEnterDir
    \/ SyncFile
    \/ SyncLeaveDir
    \/ CleanupBegin
    \/ CleanupEnterDir
    \/ CleanupFile
    \/ CleanupLeaveDir
    \/ ArchiveReturn
    \/ Tick
    \/ Restart

Spec == Init /\ [][Next]_vars

\* The API server beside the collector's saves, one collector registered.
ApiNext ==
    \/ SaveOpenDated
    \/ SaveDumpDated
    \/ SaveOpenLatest
    \/ SaveDumpLatest
    \/ SaveToBucket
    \/ ApiGetLatest
    \/ ApiGetByDate
    \/ Tick
    \/ Restart

ApiSpec == Init /\ [][ApiNext]_vars

\* The handlers that take a date or a path, beside whole saves.
ReadNext ==
    \/ Save
    \/ ApiGetByDate
    \/ ApiDownload
    \/ Tick
    \/ Restart

ReadSpec == Init /\ [][ReadNext]_vars

\* The two tiers: saves call by call, the archive task step by step and the
\* scheduler loop that runs them.
TierNext ==
    \/ SaveOpenDated
    \/ SaveDumpDated
    \/ SaveOpenLatest
    \/ SaveDumpLatest
    \/ ArchiveStart
    \/ SyncEnterDir
    \/ SyncFile
    \/ SyncLeaveDir
    \/ CleanupBegin
    \/ CleanupEnterDir
    \/ CleanupFile
    \/ CleanupLeaveDir
    \/ ArchiveReturn
    \/ Tick
    \/ Restart

TierSpec == Init /\ [][TierNext]_vars

\* The archive task with a reachable bucket.  Once started, a run goes on to
\* its end; the daily job comes due again and again; an upload that is
\* tried again and again succeeds at some point.
ArchiveStep ==
    \/ SyncEnterDir
    \/ SyncFileReachable
    \/ SyncLeaveDir
    \/ CleanupBegin
    \/ CleanupEnterDir
    \/ CleanupFileReachable
    \/ CleanupLeaveDir
    \/ ArchiveReturn

LiveNext ==
    \/ Save
    \/ ArchiveStart
    \/ ArchiveStep
    \/ Tick
    \/ Restart

LiveSpec ==
    /\ Init
    /\ [][LiveNext]_vars
    /\ WF_vars(ArchiveStart)
    /\ WF_vars(ArchiveStep)
    /\ SF_vars(UploadSucceeds)

\* The token cache of one TDXAuth object.
AuthNext ==
    \/ GetAccessToken
    \/ AuthTick
    \/ Restart

AuthSpec == Init /\ [][AuthNext]_vars

\* -------------------------------------------------------------- properties
\* the dated Hot entries a step removes
Deleted == DOMAIN local \ DOMAIN local'

\* an archive run has returned to the scheduler and nothing has run since
Returned == result.status = "returned"

\* dated Hot entries the run that has just ended found and no longer finds
DeletedByRun == DOMAIN hist.start_local \ DOMAIN local

\* retention period in clock ticks
Retention == ARCHIVE_RETENTION_DAYS * TicksPerDay

\* C1: a dated Hot entry is removed only in a step of the retention phase
\* whose existence check for that very key, made in the same archive run,
\* answered true.
C1_DeleteOnlyAfterTrueCheck ==
    [][\A k \in Deleted : pc = "cleanup" /\ k \in hist'.exists_true]_vars

\* C1 witness: the retention phase has checked a key, got true and removed
\* the entry.
C1_Witness ==
    /\ pc = "cleanup"
    /\ \E k \in hist.exists_true : k \in DeletedByRun

\* C2 (as stated): whenever a dated entry leaves Hot, Cold holds the same
\* key with the same content as the entry had.
C2_DeletedHasIdenticalColdCopy ==
    [][\A k \in Deleted : k \in DOMAIN s3 /\ s3[k] = local[k].body]_vars

\* every existence check the run made went unanswered: Cold is unreachable
ColdUnreachable == hist.called /\ ~hist.responded

\* C3 (as stated): an archive run during which Cold is unreachable still
\* returns its stats, with nothing deleted.
C3_UnreachableColdStillReturns ==
    (pc = "idle" /\ ColdUnreachable)
        => (Returned /\ result.cleanup.deleted = 0 /\ DeletedByRun = {})

\* entries that, when the run started, were older than the retention period
\* (by modification time) and had no Cold copy
OldWithoutCopy ==
    {k \in DOMAIN hist.start_local :
        /\ hist.start_local[k].mtime < hist.cutoff
        /\ k \notin hist.start_s3}

\* C4 (as stated): an entry older than the retention period with no Cold
\* copy when the run is invoked is still in Hot after the run returns.
C4_OldWithoutCopyStaysInHot ==
    Returned => \A k \in OldWithoutCopy : k \in DOMAIN local

\* C4 (amended): such an entry is still in Hot at every point of the run and
\* after it, however the run ends, unless the sync phase of this very run
\* uploaded it, in which case Cold holds its content.
C4_OldWithoutCopyKeptOrUploaded ==
    \A k \in OldWithoutCopy :
        \/ k \in DOMAIN local
        \/ k \in DOMAIN s3 /\ s3[k] = hist.start_local[k].body

\* C4 witness: a run has returned and an old entry without a Cold copy is
\* still in Hot, and still has no Cold copy.
C4_Witness ==
    /\ Returned
    /\ \E k \in OldWithoutCopy : k \in DOMAIN local /\ k \notin DOMAIN s3

\* C5 (as stated): a run that returns has deleted a dated entry if and only
\* if its age, counted from the captured_at of its key, exceeds the
\* retention period and Cold holds the key at the retention check.
C5_DeletedIffKeyAgeAndColdCopy ==
    Returned =>
        \A k \in DOMAIN hist.start_local :
            k \in DeletedByRun
                <=> (now - captured_at(k) > Retention /\ k \in DOMAIN s3)

\* C5 (amended): a run, at every point and however it ends, has deleted a
\* dated entry if and only if the file's modification time is before the
\* cutoff (now minus the retention period) and the existence check of the
\* retention phase has answered true for its key; the key of a deleted entry
\* is then older than the retention period and Cold holds it.
C5_DeletedIffMtimeAndTrueCheck ==
    \A k \in DOMAIN hist.start_local :
        /\ k \in DeletedByRun
               <=> /\ hist.start_local[k].mtime < hist.cutoff
                   /\ k \in hist.exists_true
        /\ k \in DeletedByRun
               => (now - captured_at(k) > Retention /\ k \in DOMAIN s3)

\* C5 witness: a run has returned having deleted one entry and kept a
\* younger one that Cold holds as well.
C5_Witness ==
    /\ Returned
    /\ DeletedByRun # {}
    /\ \E k \in DOMAIN local :
           /\ k \in DOMAIN s3
           /\ k \in DOMAIN hist.start_local
           /\ local[k].mtime >= hist.cutoff

\* dated entries of the directory of the sync_directory call just ended
SyncedEntries == Cardinality(DatedFiles(hist.sync.dir))

C7_SyncCountsEveryEntry ==
    hist.sync.status # "none"
        => /\ hist.sync.status = "returned"
           /\ hist.sync.stats.uploaded + hist.sync.stats.skipped
                  + hist.sync.stats.failed = SyncedEntries

\* C8 (as stated): ArchiveTask.run never raises.
C8_ArchiveRunNeverRaises ==
    result.status # "raised"

\* a step in which the scheduler called BaseCollector.run on c
RunStep(c) == run_count'[c] # run_count[c]

\* C9: BaseCollector.run never raises; when collect() or the storage save
\* failed it returns an outcome that carries the error, and otherwise the
\* stats.
C9_RunNeverRaises ==
    [][\A c \in Collectors :
          RunStep(c) =>
              /\ proc' = "running"
              /\ outcome'.name = c
              /\ outcome'.kind \in {"stats", "error"}
              /\ outcome'.failed => (outcome'.kind = "error" /\ outcome'.error # None)
              /\ ~outcome'.failed => (outcome'.kind = "stats" /\ outcome'.error = None)]_vars

\* C9 witness: a cycle whose storage save failed has returned its error.
C9_Witness ==
    /\ outcome.kind = "error"
    /\ outcome.error = "storage"
    /\ proc = "running"

\* C10: every call of BaseCollector.run adds exactly 1 to run_count, and 1 to
\* error_count if the cycle failed and 0 if it did not; no step lowers a
\* counter or changes error_count without run_count.
C10_CountersStepByOne ==
    [][\A c \in Collectors :
          /\ run_count'[c] >= run_count[c]
          /\ error_count'[c] >= error_count[c]
          /\ RunStep(c) =>
                /\ run_count'[c] = run_count[c] + 1
                /\ error_count'[c] =
                       error_count[c] + (IF outcome'.failed THEN 1 ELSE 0)
          /\ ~RunStep(c) => error_count'[c] = error_count[c]]_vars

\* C10 witness: a collector has had a failed cycle and then a cycle that
\* succeeded.
C10_Witness ==
    \E c \in Collectors :
        /\ run_count[c] = 2
        /\ error_count[c] = 1
        /\ outcome.name = c
        /\ outcome.kind = "stats"

\* C11: a cycle of one collector, failed or not, leaves the counters and
\* last_run of every other collector as they were and leaves the scheduler
\* loop running, so that the other collectors' ticks still execute; a cycle
\* that did not fail does not raise its collector's error_count.
C11_FailureStaysWithItsCollector ==
    [][\A c \in Collectors :
          RunStep(c) =>
              /\ \A d \in Collectors \ {c} :
                    /\ run_count'[d] = run_count[d]
                    /\ error_count'[d] = error_count[d]
                    /\ last_run'[d] = last_run[d]
              /\ outcome'.failed => proc' = "running" /\ pc' = "idle"
              /\ ~outcome'.failed => error_count'[c] = error_count[c]]_vars

\* one collector has failed every cycle so far and the other, run after it,
\* has succeeded without an error counted
C11_Witness ==
    \E c \in Collectors, d \in Collectors :
        /\ c # d
        /\ run_count[c] = 1 /\ error_count[c] = 1
        /\ run_count[d] = 1 /\ error_count[d] = 0
        /\ outcome.name = d
        /\ outcome.kind = "stats"

\* C12: every cycle whose collect() succeeded and that did not fail has
\* written its body to Hot, under the dated key of the cycle's timestamp and
\* in latest.json, whether or not a bucket is configured.
C12_SuccessfulCycleSavesToHot ==
    [][\A c \in Collectors :
          (RunStep(c) /\ outcome'.body # None /\ ~outcome'.failed) =>
              /\ Key(c, now) \in DOMAIN local'
              /\ local'[Key(c, now)].body = outcome'.body
              /\ local_latest'[c] = outcome'.body]_vars

C14_LatestIsLastSuccessfulSave ==
    [][\A c \in Collectors :
          /\ local_latest'[c] # local_latest[c] =>
                /\ RunStep(c)
                /\ ~outcome'.failed
                /\ local_latest'[c] = outcome'.body
          /\ (/\ RunStep(c)
              /\ get_storage = "LocalStorage"
              /\ outcome'.body # None
              /\ ~outcome'.failed) => local_latest'[c] = outcome'.body]_vars

\* C15: when a cycle's LocalStorage.save has written the dated file in
\* full and then failed on latest.json, the cycle is reported as an error,
\* the dated file stays, and latest.json still holds the complete record it
\* held before.
C15_FailedLatestWriteKeepsPrevious ==
    [][\A c \in Collectors :
          (/\ RunStep(c)
           /\ get_storage = "LocalStorage"
           /\ outcome'.error = "storage"
           /\ local_latest[c] \in Bodies
           /\ Key(c, now) \in DOMAIN local'
           /\ local'[Key(c, now)] = [body |-> outcome'.body, mtime |-> now]) =>
              /\ outcome'.kind = "error"
              /\ error_count'[c] = error_count[c] + 1
              /\ local_latest'[c] = local_latest[c]]_vars

\* C16: a get_latest answered while LocalStorage.save of the same collector
\* is between its first open() and its return, latest.json having held a
\* complete record when the save started, carries that record or the one
\* being saved, never an error or anything else.
C16_ReadSeesOldOrNew ==
    (/\ response.req = "latest"
     /\ wr.at # "idle"
     /\ wr.c = response.collector
     /\ wr.old \in Bodies) =>
        /\ response.status = 200
        /\ response.data \in {wr.old, wr.b}

\* C19: get_latest answers with Hot latest.json when it is there, else with
\* the bucket's latest.json when that is there, and with 404 only when
\* neither is.
C19_LatestFallsBackToCold ==
    response.req = "latest" =>
        LET c == response.collector
        IN  /\ local_latest[c] \in Bodies =>
                  response.status = 200 /\ response.data = local_latest[c]
            /\ (local_latest[c] = None /\ DatedFiles(c) = {}
                   /\ s3_latest[c] # None) =>
                  response.status = 200 /\ response.data = s3_latest[c]
            /\ response.status = 404 =>
                  local_latest[c] = None /\ s3_latest[c] = None

\* the dated Hot and Cold entries of the date the last by-date request named
HotOfRequest ==
    {k \in DOMAIN local :
        k[1] = response.collector /\ k[2] = strptime(response.date)}
ColdOfRequest ==
    {k \in DOMAIN s3 :
        k[1] = response.collector /\ k[2] = strptime(response.date)}

CallStep == call'.returned # None /\ avars' # avars

\* C17: get_access_token posts to the token endpoint exactly when there is
\* no cached token or the clock has reached issued_at + ttl - 300; otherwise
\* it returns the cached token, and the cache is left as it was.
C17_ExchangeIffNoValidLease ==
    [][CallStep =>
          /\ call'.exchanged <=>
                 \/ _access_token = None
                 \/ time >= call.issued_at + call.ttl - REFRESH_MARGIN
          /\ ~call'.exchanged =>
                 /\ call'.returned = _access_token
                 /\ _access_token' = _access_token
                 /\ _token_expiry' = _token_expiry]_vars

\* a call made some time after the exchange is answered from the cache
C17_Witness ==
    /\ call.returned \in Tokens
    /\ ~call.exchanged
    /\ call.returned = _access_token
    /\ time > call.issued_at

\* C18: when the exchange fails with a network error or a non-2xx status,
\* the call raises, _access_token and _token_expiry are what they were, and
\* the cache still does not pass the validity test, so the next call posts
\* again.
C18_FailedExchangeKeepsLease ==
    [][(CallStep /\ call'.failure \in {"network_error", "http_error"}) =>
          /\ call'.returned = "raise"
          /\ _access_token' = _access_token
          /\ _token_expiry' = _token_expiry
          /\ \/ _access_token' = None
             \/ time' >= call'.issued_at + call'.ttl - REFRESH_MARGIN]_vars

\* the exchange failed while an expired token was cached, and the token is
\* still there
C18_Witness ==
    /\ call.returned = "raise"
    /\ call.failure = "http_error"
    /\ _access_token \in Tokens

\* ------------------------------------------------------------------------
\* C21: a read with invalid input (by_date with a string that is not a
\* calendar date, download with ".." in the path) is answered 400 and the
\* handler has looked neither under LOCAL_DATA_DIR nor in the bucket.
Rejected ==
    /\ response.status = 400
    /\ ~response.hot
    /\ ~response.listed
    /\ ~response.fetched
    /\ response.data = None
    /\ response.files = {}

C21_InvalidInputRejectedBeforeAccess ==
    /\ (response.req = "by_date" /\ response.date[1] # "ymd") => Rejected
    /\ (response.req = "download" /\ response.path[1] = "dotdot") => Rejected

C21_Witness ==
    /\ response.req = "download"
    /\ response.path[1] = "dotdot"
    /\ response.status = 400
    /\ \E k \in DOMAIN local : k[1] = response.collector

\* ------------------------------------------------------------------------
\* C22: download_file serves the Hot file when it exists, otherwise the Cold
\* object under "<collector>/<filepath>" when it exists, and answers 404 only
\* when the path is in neither tier (answers to a get_object that failed
\* are left aside).
C22_DownloadServesHotThenCold ==
    \A c \in Collectors, path \in FilePaths :
        ~has_dotdot(path) =>
            \A r \in download_file(c, path) :
                r.status # 500 =>
                    /\ local_content(c, path) # None =>
                        /\ r.status = 200
                        /\ r.source = "local"
                        /\ r.data = local_content(c, path)
                    /\ (local_content(c, path) = None
                            /\ s3_content(c, path) # None) =>
                        /\ r.status = 200
                        /\ r.source = "s3"
                        /\ r.data = s3_content(c, path)
                    /\ r.status = 404 =>
                        /\ local_content(c, path) = None
                        /\ s3_content(c, path) = None

\* ------------------------------------------------------------------------
\* C23 (as stated): no failure, a failing archive run included, stops the
\* scheduler loop: the while loop of main() is running in every state.
C23_SchedulerLoopSurvivesFailures ==
    proc = "running"

C25_DatedEntryImmutable ==
    [][/\ \A k \in DOMAIN local \cap DOMAIN local' :
              local'[k].body = local[k].body
       /\ (local' # local /\ DOMAIN local \subseteq DOMAIN local')
              => Cardinality(DOMAIN local') = Cardinality(DOMAIN local) + 1]_vars

\* ------------------------------------------------------------------------
\* C26 (as stated): at the moment get_access_token returns a token, cached
\* or just obtained, the clock is before issued_at + ttl - 300.
C26_ReturnedTokenInsideMargin ==
    call.returned \in Tokens =>
        time < call.issued_at + call.ttl - REFRESH_MARGIN

\* ------------------------------------------------------------------------
\* C27: a save and an archive run are never in progress together (the
\* deletions and the removal of empty directories happen inside the archive
\* run), and a file the cleanup deletes was last written more than
\* ARCHIVE_RETENTION_DAYS before the deletion.
C27_RetentionNeverOverlapsSave ==
    [][/\ wr'.at # "idle" => pc' = "idle"
       /\ ((\E k \in DOMAIN local : k \notin DOMAIN local')
               \/ ~(local_dirs \subseteq local_dirs'))
              => /\ pc = "cleanup"
                 /\ wr.at = "idle"
       /\ \A k \in DOMAIN local :
              k \notin DOMAIN local'
                  => local[k].mtime < now - ARCHIVE_RETENTION_DAYS * TicksPerDay]_vars

\* the cleanup has deleted an old file and left one written within the
\* retention period
C27_Witness ==
    /\ pc = "cleanup"
    /\ cleanup_stats.deleted > 0
    /\ wr.at = "idle"
    /\ \E k \in DOMAIN local : local[k].mtime >= cutoff_date

\* ------------------------------------------------------------------------
\* C28 (as stated): in the result of an archive run, cleanup.deleted +
\* cleanup.kept is the number of dated local files there were when the
\* cleanup started (no file is written or removed between the start of the
\* run and the start of its cleanup); latest.json is in neither count.
C28_CleanupCountsDatedEntries ==
    Returned =>
        result.cleanup.deleted + result.cleanup.kept
            = Cardinality(DOMAIN hist.start_local)

\* ------------------------------------------------------------------------
\* C30: last_run of a collector is None until its first successful cycle; a
\* successful cycle sets it to the timestamp taken at the start of that
\* cycle, a failed cycle and every other step leave it as it was; and
\* error_count never exceeds run_count.
C30_LastRunIsLastSuccess ==
    [][\A c \in Collectors :
          /\ run_count[c] = 0 => last_run[c] = NoTime
          /\ error_count[c] = run_count[c] => last_run[c] = NoTime
          /\ error_count[c] <= run_count[c]
          /\ error_count'[c] <= run_count'[c]
          /\ (RunStep(c) /\ ~outcome'.failed) => last_run'[c] = now
          /\ (RunStep(c) /\ outcome'.failed) => last_run'[c] = last_run[c]
          /\ ~RunStep(c) => last_run'[c] = last_run[c]]_vars

\* a successful cycle, later a failed one: last_run is still the first one's
C30_Witness ==
    \E c \in Collectors :
        /\ run_count[c] = 2
        /\ error_count[c] = 1
        /\ outcome.name = c
        /\ outcome.failed
        /\ last_run[c] # NoTime
        /\ last_run[c] < now

\* ------------------------------------------------------------------------
\* C29: with the archive job running again and again, the bucket reachable
\* and uploads succeeding at some point, every dated local file is eventually
\* in the bucket and, once its mtime is older than ARCHIVE_RETENTION_DAYS,
\* eventually removed from the local directory: from every state there
\* follows one in which each local file has its object in the bucket, and one
\* in which no local file is older than the retention period; no object ever
\* leaves the bucket.
C29_EventuallyArchivedAndDeleted ==
    /\ S3_BUCKET ~> (DOMAIN local \subseteq DOMAIN s3)
    /\ S3_BUCKET ~> (\A k \in DOMAIN local :
                        /\ k \in DOMAIN s3
                        /\ local[k].mtime >= now - Retention)
    /\ [][DOMAIN s3 \subseteq DOMAIN s3']_vars

\* a run has uploaded a file, and a later run has deleted it
C29_Witness ==
    /\ Returned
    /\ result.cleanup.deleted > 0
    /\ \E k \in DOMAIN s3 : k \in DOMAIN hist.start_local /\ k \notin DOMAIN local

====
